---- MODULE Spec2Model ----
(***************************************************************************)
(* Orchestration core of the project orchestrator: the agent tools         *)
(* (save_message, get_project_context, get_conversation, update_status,    *)
(* save_vision_document) and run_orchestrator of                           *)
(* src/agent/orchestrator_agent.py, over a ledger of conversation messages *)
(* and a table of projects.                                                *)
(*                                                                         *)
(* Text that the code converts (role and status names, which it passes     *)
(* through str.upper() and an enum lookup by member name) is a sequence of *)
(* one-character strings; text it only stores is an opaque string.         *)
(***************************************************************************)
EXTENDS Integers, Sequences, FiniteSets, TLC

VARIABLES
    projects,   \* project id -> row of the projects table (existing projects only)
    ledger,     \* project id -> sequence of stored conversation messages
    clock,      \* storage clock: the timestamp the next write gets
    turn,       \* caller slot -> the run_orchestrator / agent run in flight there
    nturns      \* number of runs started so far

vars == <<projects, ledger, clock, turn, nturns>>

----------------------------------------------------------------------------
(* Bounds of the model *)

MaxTurns == 1       \* runs started in one behaviour
MaxSteps == 2       \* tools the collaborator has run in one run of the agent

----------------------------------------------------------------------------
(* Text and its conversions *)

LowerChars == <<"a","b","c","d","e","f","g","h","i","j","k","l","m","n","o","p","q","r","s","t","u","v","w","x","y","z">>
UpperChars == <<"A","B","C","D","E","F","G","H","I","J","K","L","M","N","O","P","Q","R","S","T","U","V","W","X","Y","Z">>

upper_char(c) ==
    IF \E i \in DOMAIN LowerChars : LowerChars[i] = c
    THEN UpperChars[CHOOSE i \in DOMAIN LowerChars : LowerChars[i] = c]
    ELSE c

\* str.upper(): every lower-case letter becomes its capital, the rest stays
upper(s) == [i \in 1..Len(s) |-> upper_char(s[i])]

lower_char(c) ==
    IF \E i \in DOMAIN UpperChars : UpperChars[i] = c
    THEN LowerChars[CHOOSE i \in DOMAIN UpperChars : UpperChars[i] = c]
    ELSE c

\* case folding, used to state "compared case-insensitively"
casefold(s) == [i \in 1..Len(s) |-> lower_char(s[i])]

SameIgnoringCase(a, b) == casefold(a) = casefold(b)

----------------------------------------------------------------------------
(* The closed enums of src.database.models *)

MessageRole == {"USER", "ASSISTANT", "SYSTEM"}

MessageRoleName ==
    [ USER      |-> <<"U","S","E","R">>,
      ASSISTANT |-> <<"A","S","S","I","S","T","A","N","T">>,
      SYSTEM    |-> <<"S","Y","S","T","E","M">> ]

ProjectStatus == {"BRAINSTORMING", "VISION_REVIEW"}

ProjectStatusName ==
    [ BRAINSTORMING |-> <<"B","R","A","I","N","S","T","O","R","M","I","N","G">>,
      VISION_REVIEW |-> <<"V","I","S","I","O","N","_","R","E","V","I","E","W">> ]

InitialStatus == "BRAINSTORMING"

KeyError == "KeyError"

\* MessageRole[key]: the member named key, KeyError when there is none
MessageRole_getitem(key) ==
    IF \E m \in MessageRole : MessageRoleName[m] = key
    THEN CHOOSE m \in MessageRole : MessageRoleName[m] = key
    ELSE KeyError

\* ProjectStatus[key]
ProjectStatus_getitem(key) ==
    IF \E m \in ProjectStatus : ProjectStatusName[m] = key
    THEN CHOOSE m \in ProjectStatus : ProjectStatusName[m] = key
    ELSE KeyError

\* member.value
enum_value(m) == <<"value", m>>

\* datetime.isoformat()
isoformat(ts) == <<"iso", ts>>

----------------------------------------------------------------------------
(* Inputs *)

NoProject == "None"                 \* deps.project_id is None
ProjectIds == {"p1", "p2"}          \* the projects that exist
TurnIds == {"p1"}                   \* the project the callers talk about
UnknownIds == {"p0"}                \* an id no project has

UserTexts == {"hello"}              \* what the human says
Replies == {"ok"}                   \* the collaborator's final reply
SavedTexts == {"note"}              \* content the collaborator asks to save

RoleInputs ==
    { <<"A","s","s","i","s","t","a","n","t">>,
      <<"s","y","s","t","e","m">>,
      <<"m","o","d","e","r","a","t","o","r">> }

StatusInputs ==
    { <<"b","r","a","i","n","s","t","o","r","m","i","n","g">>,
      <<"V","i","s","i","o","n","_","R","e","v","i","e","w">>,
      <<"V","I","S","I","O","N","_","R","E","V","I","E","W">>,
      <<"v","i","s","i","o","n"," ","r","e","v","i","e","w">> }

DefaultLimit == 20
LimitInputs == {-1, 0, 1, DefaultLimit}

VisionDocs == { ("goal" :> "g1"), ("goal" :> "g2" @@ "scope" :> "s1") }

Slots == {"t1", "t2"}
Tools == {"save_message", "get_project_context", "get_conversation",
          "update_status", "save_vision_document"}
MalformedRequests == {"get_conversation"}   \* e.g. a limit that is no integer

----------------------------------------------------------------------------
(* What a call gives back: a returned value or a raised exception *)

Returned(kind, msg, arg, data) ==
    [kind |-> kind, msg |-> msg, arg |-> arg, data |-> data]

Raised(exc) == [kind |-> "raise", msg |-> exc, arg |-> <<>>, data |-> <<>>]

NoResult == [kind |-> "none", msg |-> "", arg |-> <<>>, data |-> <<>>]

\* the state a storage call leaves, with what it gave back
Effect(out, L, P, c) == [out |-> out, ledger |-> L, projects |-> P, clock |-> c]

----------------------------------------------------------------------------
(* The storage operations of src.agent.tools (contracts of spec 4.1, 4.2) *)

NotFound == "NotFound"
InvalidArgument == "InvalidArgument"

Message(role, content, ts) == [role |-> role, content |-> content, timestamp |-> ts]

\* Ledger.append: NotFound when the project does not exist, else one more
\* message at the end of its ledger, stamped with the storage clock
save_conversation_message(L, P, c, project_id, role, content) ==
    IF project_id \notin DOMAIN P
    THEN Effect(Raised(NotFound), L, P, c)
    ELSE Effect(Returned("message", "", <<>>, <<Message(role, content, c)>>),
                [L EXCEPT ![project_id] = Append(@, Message(role, content, c))],
                P, c + 1)

\* Project lookup for the tools: the row, or None (the empty sequence)
get_project(P, project_id) ==
    IF project_id \in DOMAIN P THEN <<P[project_id]>> ELSE <<>>

Min(a, b) == IF a <= b THEN a ELSE b

\* Ledger.recent: the last min(limit, n) messages, oldest first
get_conversation_history(L, P, project_id, limit) ==
    IF project_id \notin DOMAIN P THEN Raised(NotFound)
    ELSE IF limit <= 0 THEN Raised(InvalidArgument)
    ELSE LET n == Len(L[project_id])
             k == Min(limit, n)
         IN  Returned("messages", "", <<>>, SubSeq(L[project_id], n - k + 1, n))

\* setStatus, after the name has been parsed: status and updated_at change
update_project_status(L, P, c, project_id, status) ==
    IF project_id \notin DOMAIN P
    THEN Effect(Raised(NotFound), L, P, c)
    ELSE Effect(Returned("project", "", <<>>, <<>>), L,
                [P EXCEPT ![project_id].status = status,
                          ![project_id].updated_at = c],
                c + 1)

\* setVisionDocument: the document is replaced wholesale
update_project_vision(L, P, c, project_id, vision_doc) ==
    IF project_id \notin DOMAIN P
    THEN Effect(Raised(NotFound), L, P, c)
    ELSE Effect(Returned("project", "", <<>>, <<>>), L,
                [P EXCEPT ![project_id].vision_document = <<vision_doc>>,
                          ![project_id].updated_at = c],
                c + 1)

----------------------------------------------------------------------------
(* The agent tools of orchestrator_agent.py.  Each takes the storage state *)
(* (L, P, c), ctx.deps.project_id and its arguments, and gives the state   *)
(* it leaves with the value it returns or the exception it raises.         *)

NoActiveProject == "No active project"

\* save_message that confirms without storing the message
save_message_unsaved(L, P, c, project_id, role, content) ==
    IF project_id = NoProject
    THEN Effect(Returned("str", "Error: No active project", <<>>, <<>>), L, P, c)
    ELSE LET role_enum == MessageRole_getitem(upper(role)) IN
         IF role_enum = KeyError
         THEN Effect(Raised(KeyError), L, P, c)
         ELSE Effect(Returned("str", "Message saved as {role}", role, <<>>), L, P, c)

\* save_message that converts the role before it looks for the project
save_message_role_first(L, P, c, project_id, role, content) ==
    LET role_enum == MessageRole_getitem(upper(role)) IN
    IF role_enum = KeyError
    THEN Effect(Raised(KeyError), L, P, c)
    ELSE IF project_id = NoProject
    THEN Effect(Returned("str", "Error: No active project", <<>>, <<>>), L, P, c)
    ELSE LET e == save_conversation_message(L, P, c, project_id, role_enum, content) IN
         IF e.out.kind = "raise" THEN e
         ELSE Effect(Returned("str", "Message saved as {role}", role, <<>>),
                     e.ledger, e.projects, e.clock)

\* save_message that writes over the newest stored message
save_message_overwrite(L, P, c, project_id, role, content) ==
    IF project_id = NoProject
    THEN Effect(Returned("str", "Error: No active project", <<>>, <<>>), L, P, c)
    ELSE LET role_enum == MessageRole_getitem(upper(role)) IN
         IF role_enum = KeyError
         THEN Effect(Raised(KeyError), L, P, c)
         ELSE IF project_id \notin DOMAIN P
         THEN Effect(Raised(NotFound), L, P, c)
         ELSE Effect(Returned("str", "Message saved as {role}", role, <<>>),
                     [L EXCEPT ![project_id] =
                         Append(SubSeq(@, 1, Len(@) - 1), Message(role_enum, content, c))],
                     P, c + 1)

save_message(L, P, c, project_id, role, content) ==
    IF project_id = NoProject
    THEN Effect(Returned("str", "Error: No active project", <<>>, <<>>), L, P, c)
    ELSE LET role_enum == MessageRole_getitem(upper(role)) IN
         IF role_enum = KeyError
         THEN Effect(Raised(KeyError), L, P, c)
         ELSE LET e == save_conversation_message(L, P, c, project_id, role_enum, content) IN
              IF e.out.kind = "raise" THEN e
              ELSE Effect(Returned("str", "Message saved as {role}", role, <<>>),
                          e.ledger, e.projects, e.clock)

\* get_project_context that reports the vision-document flag inverted
get_project_context_inverted(L, P, c, project_id) ==
    IF project_id = NoProject
    THEN Effect(Returned("dict", "error", <<>>, <<[error |-> NoActiveProject]>>), L, P, c)
    ELSE LET project == get_project(P, project_id) IN
         IF project = <<>>
         THEN Effect(Returned("dict", "error", <<>>, <<[error |-> "Project not found"]>>), L, P, c)
         ELSE Effect(Returned("dict", "project", <<>>,
                        << [ id |-> project_id,
                             status |-> enum_value(project[1].status),
                             has_vision_document |-> (project[1].vision_document = <<>>),
                             created_at |-> isoformat(project[1].created_at),
                             updated_at |-> isoformat(project[1].updated_at) ] >>),
                     L, P, c)

\* get_project_context that stamps the project it reads
get_project_context_touch(L, P, c, project_id) ==
    IF project_id = NoProject
    THEN Effect(Returned("dict", "error", <<>>, <<[error |-> NoActiveProject]>>), L, P, c)
    ELSE LET project == get_project(P, project_id) IN
         IF project = <<>>
         THEN Effect(Returned("dict", "error", <<>>, <<[error |-> "Project not found"]>>), L, P, c)
         ELSE Effect(Returned("dict", "project", <<>>,
                        << [ id |-> project_id,
                             status |-> enum_value(project[1].status),
                             has_vision_document |-> (project[1].vision_document # <<>>),
                             created_at |-> isoformat(project[1].created_at),
                             updated_at |-> isoformat(project[1].updated_at) ] >>),
                     L, [P EXCEPT ![project_id].updated_at = c], c + 1)

get_project_context(L, P, c, project_id) ==
    IF project_id = NoProject
    THEN Effect(Returned("dict", "error", <<>>, <<[error |-> NoActiveProject]>>), L, P, c)
    ELSE LET project == get_project(P, project_id) IN
         IF project = <<>>
         THEN Effect(Returned("dict", "error", <<>>, <<[error |-> "Project not found"]>>), L, P, c)
         ELSE Effect(Returned("dict", "project", <<>>,
                        << [ id |-> project_id,
                             status |-> enum_value(project[1].status),
                             has_vision_document |-> (project[1].vision_document # <<>>),
                             created_at |-> isoformat(project[1].created_at),
                             updated_at |-> isoformat(project[1].updated_at) ] >>),
                     L, P, c)

\* get_conversation that lists the newest message first
get_conversation_newest_first(L, P, c, project_id, limit) ==
    IF project_id = NoProject
    THEN Effect(Returned("list", "error", <<>>, <<[error |-> NoActiveProject]>>), L, P, c)
    ELSE LET messages == get_conversation_history(L, P, project_id, limit) IN
         IF messages.kind = "raise" THEN Effect(messages, L, P, c)
         ELSE Effect(Returned("list", "messages", <<>>,
                        [ i \in 1..Len(messages.data) |->
                            LET msg == messages.data[Len(messages.data) + 1 - i] IN
                            [ role |-> enum_value(msg.role),
                              content |-> msg.content,
                              timestamp |-> isoformat(msg.timestamp) ] ]),
                     L, P, c)

get_conversation(L, P, c, project_id, limit) ==
    IF project_id = NoProject
    THEN Effect(Returned("list", "error", <<>>, <<[error |-> NoActiveProject]>>), L, P, c)
    ELSE LET messages == get_conversation_history(L, P, project_id, limit) IN
         IF messages.kind = "raise" THEN Effect(messages, L, P, c)
         ELSE Effect(Returned("list", "messages", <<>>,
                        [ i \in 1..Len(messages.data) |->
                            [ role |-> enum_value(messages.data[i].role),
                              content |-> messages.data[i].content,
                              timestamp |-> isoformat(messages.data[i].timestamp) ] ]),
                     L, P, c)

\* update_status without the except clause
update_status_uncaught(L, P, c, project_id, new_status) ==
    IF project_id = NoProject
    THEN Effect(Returned("str", "Error: No active project", <<>>, <<>>), L, P, c)
    ELSE LET status_enum == ProjectStatus_getitem(upper(new_status)) IN
         IF status_enum = KeyError
         THEN Effect(Raised(KeyError), L, P, c)
         ELSE LET e == update_project_status(L, P, c, project_id, status_enum) IN
              IF e.out.kind = "raise" THEN e
              ELSE Effect(Returned("str", "Project status updated to {new_status}", new_status, <<>>),
                          e.ledger, e.projects, e.clock)

\* update_status that looks the name up as it was given
update_status_exact(L, P, c, project_id, new_status) ==
    IF project_id = NoProject
    THEN Effect(Returned("str", "Error: No active project", <<>>, <<>>), L, P, c)
    ELSE LET status_enum == ProjectStatus_getitem(new_status) IN
         IF status_enum = KeyError
         THEN Effect(Returned("str", "Error: Invalid status '{new_status}'", new_status, <<>>), L, P, c)
         ELSE LET e == update_project_status(L, P, c, project_id, status_enum) IN
              IF e.out.kind = "raise" THEN e
              ELSE Effect(Returned("str", "Project status updated to {new_status}", new_status, <<>>),
                          e.ledger, e.projects, e.clock)

update_status(L, P, c, project_id, new_status) ==
    IF project_id = NoProject
    THEN Effect(Returned("str", "Error: No active project", <<>>, <<>>), L, P, c)
    ELSE LET status_enum == ProjectStatus_getitem(upper(new_status)) IN
         IF status_enum = KeyError
         THEN Effect(Returned("str", "Error: Invalid status '{new_status}'", new_status, <<>>), L, P, c)
         ELSE LET e == update_project_status(L, P, c, project_id, status_enum) IN
              IF e.out.kind = "raise" THEN e
              ELSE Effect(Returned("str", "Project status updated to {new_status}", new_status, <<>>),
                          e.ledger, e.projects, e.clock)

\* save_vision_document that confirms whatever the storage operation did
save_vision_document_swallow(L, P, c, project_id, vision_doc) ==
    IF project_id = NoProject
    THEN Effect(Returned("str", "Error: No active project", <<>>, <<>>), L, P, c)
    ELSE LET e == update_project_vision(L, P, c, project_id, vision_doc) IN
         Effect(Returned("str", "Vision document saved successfully", <<>>, <<>>),
                e.ledger, e.projects, e.clock)

save_vision_document(L, P, c, project_id, vision_doc) ==
    IF project_id = NoProject
    THEN Effect(Returned("str", "Error: No active project", <<>>, <<>>), L, P, c)
    ELSE LET e == update_project_vision(L, P, c, project_id, vision_doc) IN
         IF e.out.kind = "raise" THEN e
         ELSE Effect(Returned("str", "Vision document saved successfully", <<>>, <<>>),
                     e.ledger, e.projects, e.clock)

----------------------------------------------------------------------------
(* One run of the agent in a caller's slot *)

retries == 2        \* Agent(retries=2)

\* a tool request: the tool, its text argument, its integer argument, and
\* its document argument as <<document>>
NoCall == [tool |-> "none", sarg |-> <<>>, iarg |-> 0, darg |-> <<>>]
Call(tool, sarg, iarg) == [tool |-> tool, sarg |-> sarg, iarg |-> iarg, darg |-> <<>>]

IdleTurn ==
    [ pc           |-> "idle",
      mode         |-> "none",       \* "turn": run_orchestrator; "agent": the agent run by itself
      project_id   |-> NoProject,    \* deps.project_id
      user_message |-> "",
      start        |-> 0,            \* length of the project's ledger when the run began
      attempts     |-> 0,            \* times orchestrator_agent.run was entered
      ncalls       |-> 0,            \* tools run for the collaborator so far
      call         |-> NoCall,       \* the last tool request
      result       |-> NoResult,     \* what it gave back to the collaborator
      current_retry |-> [tl \in Tools |-> 0],
      nsaved       |-> 0,            \* save_message calls that returned their confirmation
      applied      |-> FALSE,        \* a tool changed status or vision document
      reply        |-> "",           \* result.data
      returned     |-> <<>>,         \* <<text>> once the run has returned text
      error        |-> "" ]          \* the exception the run ended with

\* Storage as the callers find it: projects just created, or projects that
\* have each had one turn (on p1 the collaborator moved the status on)
FreshStore ==
    [ projects |-> [p \in ProjectIds |->
                      [ status |-> InitialStatus, vision_document |-> <<>>,
                        created_at |-> 0, updated_at |-> 0 ]],
      ledger   |-> [p \in ProjectIds |-> <<>>],
      clock    |-> 1 ]

UsedStore ==
    [ projects |-> [p \in ProjectIds |->
                      IF p = "p1"
                      THEN [ status |-> "VISION_REVIEW",
                             vision_document |-> <<("goal" :> "g2" @@ "scope" :> "s1")>>,
                             created_at |-> 0, updated_at |-> 2 ]
                      ELSE [ status |-> InitialStatus, vision_document |-> <<>>,
                             created_at |-> 0, updated_at |-> 0 ]],
      ledger   |-> [p \in ProjectIds |->
                      IF p = "p1"
                      THEN << Message("USER", "hello", 1), Message("ASSISTANT", "ok", 3) >>
                      ELSE << Message("USER", "hello", 4), Message("ASSISTANT", "ok", 5) >>],
      clock    |-> 6 ]

Init ==
    /\ \E s \in {FreshStore, UsedStore} :
          /\ projects = s.projects
          /\ ledger = s.ledger
          /\ clock = s.clock
    /\ turn = [t \in Slots |-> IdleTurn]
    /\ nturns = 0

LedgerLen(L, project_id) == IF project_id \in DOMAIN L THEN Len(L[project_id]) ELSE 0

\* run_orchestrator that goes on to the agent when the USER append raised
RunOrchestrator_swallow(t, project_id, user_message) ==
    /\ turn[t].pc = "idle"
    /\ nturns < MaxTurns
    /\ LET e == save_conversation_message(ledger, projects, clock, project_id,
                                          "USER", user_message)
       IN  /\ ledger' = e.ledger
           /\ projects' = e.projects
           /\ clock' = e.clock
           /\ turn' = [turn EXCEPT ![t] =
                         [IdleTurn EXCEPT !.mode = "turn", !.project_id = project_id,
                                          !.user_message = user_message,
                                          !.start = LedgerLen(ledger, project_id),
                                          !.pc = "reasoning", !.attempts = 1]]
    /\ nturns' = nturns + 1

\* run_orchestrator that runs the agent first and leaves the USER message
\* for later
run_orchestrator_begin_deferred(t, project_id, user_message) ==
    /\ turn[t].pc = "idle"
    /\ turn' = [turn EXCEPT ![t] =
                  [IdleTurn EXCEPT !.mode = "turn", !.project_id = project_id,
                                   !.user_message = user_message,
                                   !.start = LedgerLen(ledger, project_id),
                                   !.pc = IF project_id \in DOMAIN projects
                                          THEN "reasoning" ELSE "failed",
                                   !.error = IF project_id \in DOMAIN projects
                                             THEN "" ELSE NotFound,
                                   !.attempts = IF project_id \in DOMAIN projects
                                                THEN 1 ELSE 0]]
    /\ nturns' = nturns + 1
    /\ UNCHANGED <<projects, ledger, clock>>

\* run_orchestrator, lines 187-190: bind the project, append the USER message;
\* an exception of the append leaves run_orchestrator at once
run_orchestrator_begin(t, project_id, user_message) ==
    /\ turn[t].pc = "idle"
    /\ LET e == save_conversation_message(ledger, projects, clock, project_id,
                                          "USER", user_message)
           begun == [IdleTurn EXCEPT !.mode = "turn", !.project_id = project_id,
                                     !.user_message = user_message,
                                     !.start = LedgerLen(ledger, project_id)]
       IN  /\ ledger' = e.ledger
           /\ projects' = e.projects
           /\ clock' = e.clock
           /\ turn' = [turn EXCEPT ![t] =
                         IF e.out.kind = "raise"
                         THEN [begun EXCEPT !.pc = "failed", !.error = e.out.msg]
                         ELSE [begun EXCEPT !.pc = "reasoning", !.attempts = 1]]
    /\ nturns' = nturns + 1

\* a caller enters run_orchestrator
RunOrchestrator(t, project_id, user_message) ==
    /\ nturns < MaxTurns
    /\ run_orchestrator_begin(t, project_id, user_message)

\* line 190 when the storage layer fails: nothing is written
RunOrchestratorStorageError(t, project_id, user_message) ==
    /\ turn[t].pc = "idle"
    /\ nturns < MaxTurns
    /\ project_id \in DOMAIN projects
    /\ turn' = [turn EXCEPT ![t] =
                  [IdleTurn EXCEPT !.mode = "turn", !.project_id = project_id,
                                   !.user_message = user_message,
                                   !.start = LedgerLen(ledger, project_id),
                                   !.pc = "failed", !.error = "StorageError"]]
    /\ nturns' = nturns + 1
    /\ UNCHANGED <<projects, ledger, clock>>

\* orchestrator_agent.run entered by a caller other than run_orchestrator,
\* with dependencies that may bind no project
AgentRun(t, project_id) ==
    /\ turn[t].pc = "idle"
    /\ nturns < MaxTurns
    /\ turn' = [turn EXCEPT ![t] =
                  [IdleTurn EXCEPT !.mode = "agent", !.project_id = project_id,
                                   !.start = LedgerLen(ledger, project_id),
                                   !.pc = "reasoning", !.attempts = 1]]
    /\ nturns' = nturns + 1
    /\ UNCHANGED <<projects, ledger, clock>>

\* The collaborator requests a tool with well-formed arguments; the tool runs
\* and its return value goes back to the collaborator.  An exception of the
\* tool leaves orchestrator_agent.run, and with it run_orchestrator.
Dispatch(t, call, e) ==
    /\ turn[t].pc = "reasoning"
    /\ turn[t].ncalls < MaxSteps
    /\ ledger' = e.ledger
    /\ projects' = e.projects
    /\ clock' = e.clock
    /\ turn' = [turn EXCEPT ![t] =
                  [@ EXCEPT !.ncalls = @ + 1,
                            !.call = call,
                            !.result = e.out,
                            !.current_retry =
                                IF e.out.kind = "raise" THEN @
                                ELSE [@ EXCEPT ![call.tool] = 0],
                            !.nsaved = IF call.tool = "save_message"
                                          /\ e.out.msg = "Message saved as {role}"
                                       THEN @ + 1 ELSE @,
                            !.applied = @ \/ (e.projects # projects),
                            !.pc = IF e.out.kind = "raise" THEN "failed" ELSE @,
                            !.error = IF e.out.kind = "raise" THEN e.out.msg ELSE @]]
    /\ UNCHANGED nturns

SaveMessage(t, role, content) ==
    Dispatch(t, Call("save_message", role, 0),
             save_message(ledger, projects, clock, turn[t].project_id, role, content))

GetProjectContext(t) ==
    Dispatch(t, Call("get_project_context", <<>>, 0),
             get_project_context(ledger, projects, clock, turn[t].project_id))

GetConversation(t, limit) ==
    Dispatch(t, Call("get_conversation", <<>>, limit),
             get_conversation(ledger, projects, clock, turn[t].project_id, limit))

UpdateStatus(t, new_status) ==
    Dispatch(t, Call("update_status", new_status, 0),
             update_status(ledger, projects, clock, turn[t].project_id, new_status))

SaveVisionDocument(t, vision_doc) ==
    Dispatch(t, [Call("save_vision_document", <<>>, 0) EXCEPT !.darg = <<vision_doc>>],
             save_vision_document(ledger, projects, clock, turn[t].project_id, vision_doc))

\* The collaborator requests a tool with arguments its schema rejects: the
\* tool does not run; the collaborator is prompted again until the tool's
\* retry budget is used up, then the run ends with UnexpectedModelBehavior
RetryPrompt(t, tool) ==
    /\ turn[t].pc = "reasoning"
    /\ turn' = [turn EXCEPT ![t] =
                  [@ EXCEPT !.call = Call(tool, <<>>, 0),
                            !.result = [kind |-> "retry", msg |-> "validation error",
                                        arg |-> <<>>, data |-> <<>>],
                            !.current_retry = [@ EXCEPT ![tool] = @ + 1],
                            !.pc = IF turn[t].current_retry[tool] + 1 > retries
                                   THEN "failed" ELSE @,
                            !.error = IF turn[t].current_retry[tool] + 1 > retries
                                      THEN "UnexpectedModelBehavior" ELSE @]]
    /\ UNCHANGED <<projects, ledger, clock, nturns>>

\* line 193 returns: the collaborator's final reply is result.data
FinalReply(t, reply) ==
    /\ turn[t].pc = "reasoning"
    /\ turn' = [turn EXCEPT ![t] =
                  IF turn[t].mode = "turn"
                  THEN [@ EXCEPT !.pc = "persisting_output", !.reply = reply]
                  ELSE [@ EXCEPT !.pc = "complete", !.reply = reply,
                                 !.returned = <<reply>>]]
    /\ UNCHANGED <<projects, ledger, clock, nturns>>

\* a failed run that stores an apology as the ASSISTANT message
ModelRequestFails_apology(t) ==
    /\ turn[t].pc = "reasoning"
    /\ LET e == save_conversation_message(ledger, projects, clock, turn[t].project_id,
                                          "ASSISTANT", "sorry")
       IN  /\ ledger' = e.ledger
           /\ projects' = e.projects
           /\ clock' = e.clock
    /\ turn' = [turn EXCEPT ![t] =
                  [@ EXCEPT !.pc = "failed", !.error = "UpstreamTransient"]]
    /\ UNCHANGED nturns

\* a failed run whose storage session is rolled back to the projects as created
ModelRequestFails_rollback(t) ==
    /\ turn[t].pc = "reasoning"
    /\ projects' = [p \in DOMAIN projects |->
                      IF p = turn[t].project_id
                      THEN [projects[p] EXCEPT !.status = InitialStatus,
                                               !.vision_document = <<>>]
                      ELSE projects[p]]
    /\ turn' = [turn EXCEPT ![t] =
                  [@ EXCEPT !.pc = "failed", !.error = "UpstreamTransient"]]
    /\ UNCHANGED <<ledger, clock, nturns>>

\* line 193 raises: a request to the model failed; run_orchestrator has no
\* handler around the call and does not make it again
ModelRequestFails(t) ==
    /\ turn[t].pc = "reasoning"
    /\ turn' = [turn EXCEPT ![t] =
                  [@ EXCEPT !.pc = "failed", !.error = "UpstreamTransient"]]
    /\ UNCHANGED <<projects, ledger, clock, nturns>>

\* the reply stored in the ledger of a project kept in a module global
\* (the project of the first caller) instead of the turn's own
SaveAssistant_ambient(t) ==
    /\ turn[t].pc = "persisting_output"
    /\ LET e == save_conversation_message(ledger, projects, clock, "p1",
                                          "ASSISTANT", turn[t].reply)
       IN  /\ ledger' = e.ledger
           /\ projects' = e.projects
           /\ clock' = e.clock
           /\ turn' = [turn EXCEPT ![t] =
                         [@ EXCEPT !.pc = "complete", !.returned = <<turn[t].reply>>]]
    /\ UNCHANGED nturns

\* the reply stored under the USER role
SaveAssistant_as_user(t) ==
    /\ turn[t].pc = "persisting_output"
    /\ LET e == save_conversation_message(ledger, projects, clock, turn[t].project_id,
                                          "USER", turn[t].reply)
       IN  /\ ledger' = e.ledger
           /\ projects' = e.projects
           /\ clock' = e.clock
           /\ turn' = [turn EXCEPT ![t] =
                         IF e.out.kind = "raise"
                         THEN [@ EXCEPT !.pc = "failed", !.error = e.out.msg]
                         ELSE [@ EXCEPT !.pc = "complete",
                                        !.returned = <<turn[t].reply>>]]
    /\ UNCHANGED nturns

\* lines 196-200: append the ASSISTANT message, return result.data
SaveAssistant(t) ==
    /\ turn[t].pc = "persisting_output"
    /\ LET e == save_conversation_message(ledger, projects, clock, turn[t].project_id,
                                          "ASSISTANT", turn[t].reply)
       IN  /\ ledger' = e.ledger
           /\ projects' = e.projects
           /\ clock' = e.clock
           /\ turn' = [turn EXCEPT ![t] =
                         IF e.out.kind = "raise"
                         THEN [@ EXCEPT !.pc = "failed", !.error = e.out.msg]
                         ELSE [@ EXCEPT !.pc = "complete",
                                        !.returned = <<turn[t].reply>>]]
    /\ UNCHANGED nturns

\* line 196 when the storage layer fails: nothing is written, nothing returned
SaveAssistantStorageError(t) ==
    /\ turn[t].pc = "persisting_output"
    /\ turn' = [turn EXCEPT ![t] =
                  [@ EXCEPT !.pc = "failed", !.error = "StorageError"]]
    /\ UNCHANGED <<projects, ledger, clock, nturns>>

\* the caller has its answer or its exception; the slot is free again
Finish(t) ==
    /\ turn[t].pc \in {"complete", "failed"}
    /\ turn' = [turn EXCEPT ![t] = IdleTurn]
    /\ UNCHANGED <<projects, ledger, clock, nturns>>

TurnStep(t) ==
    \/ \E p \in TurnIds \cup UnknownIds, m \in UserTexts : RunOrchestrator(t, p, m)
    \/ \E p \in TurnIds, m \in UserTexts : RunOrchestratorStorageError(t, p, m)
    \/ \E p \in {NoProject} \cup UnknownIds : AgentRun(t, p)
    \/ \E r \in RoleInputs, x \in SavedTexts : SaveMessage(t, r, x)
    \/ GetProjectContext(t)
    \/ \E n \in LimitInputs : GetConversation(t, n)
    \/ \E s \in StatusInputs : UpdateStatus(t, s)
    \/ \E d \in VisionDocs : SaveVisionDocument(t, d)
    \/ \E tl \in MalformedRequests : RetryPrompt(t, tl)
    \/ \E x \in Replies : FinalReply(t, x)
    \/ ModelRequestFails(t)
    \/ SaveAssistant(t)
    \/ SaveAssistantStorageError(t)
    \/ Finish(t)

\* Callers that run one turn at a time
Next == TurnStep("t1")

Spec == Init /\ [][Next]_vars

----------------------------------------------------------------------------
(* A caller that runs the agent by itself, bound to an existing project:   *)
(* the tools then also meet a project whose ledger is still empty.         *)

AgentStep(t) ==
    \/ \E p \in ProjectIds : AgentRun(t, p)
    \/ \E r \in RoleInputs, x \in SavedTexts : SaveMessage(t, r, x)
    \/ GetProjectContext(t)
    \/ \E n \in LimitInputs : GetConversation(t, n)
    \/ \E s \in StatusInputs : UpdateStatus(t, s)
    \/ \E d \in VisionDocs : SaveVisionDocument(t, d)
    \/ \E x \in Replies : FinalReply(t, x)
    \/ Finish(t)

NextAgent == AgentStep("t1")

SpecAgent == Init /\ [][NextAgent]_vars

----------------------------------------------------------------------------
(* Two callers, each with one turn, that keep to the rule of spec 5: a      *)
(* turn on a project starts only when no other turn on it is in flight.    *)
(* Their turns on different projects interleave freely.                    *)

InFlight(u) == turn[u].pc \in {"reasoning", "persisting_output"}

SerializedStart(t, project_id, user_message) ==
    /\ turn[t].mode = "none"
    /\ \A u \in Slots \ {t} : ~(InFlight(u) /\ turn[u].project_id = project_id)
    /\ run_orchestrator_begin(t, project_id, user_message)

SerialRole == <<"A","s","s","i","s","t","a","n","t">>
SerialStatus == <<"V","i","s","i","o","n","_","R","e","v","i","e","w">>
SerialDoc == ("goal" :> "g1")

\* the first caller talks about p1, the second about either project
SerialIds(t) == IF t = "t1" THEN TurnIds ELSE ProjectIds

SerialStep(t) ==
    \/ \E p \in SerialIds(t), m \in UserTexts : SerializedStart(t, p, m)
    \/ \E x \in SavedTexts : SaveMessage(t, SerialRole, x)
    \/ GetProjectContext(t)
    \/ GetConversation(t, DefaultLimit)
    \/ UpdateStatus(t, SerialStatus)
    \/ SaveVisionDocument(t, SerialDoc)
    \/ \E x \in Replies : FinalReply(t, x)
    \/ SaveAssistant(t)

NextSerial == \E t \in Slots : SerialStep(t)

InitSerial ==
    /\ projects = UsedStore.projects
    /\ ledger = UsedStore.ledger
    /\ clock = UsedStore.clock
    /\ turn = [t \in Slots |-> IdleTurn]
    /\ nturns = 0

SpecSerial == InitSerial /\ [][NextSerial]_vars

----------------------------------------------------------------------------
(* Vocabulary of the properties *)

\* the step runs a tool in slot t
Dispatched(t) == turn'[t].ncalls = turn[t].ncalls + 1

\* role names no member of MessageRole, whatever the case of its letters
InvalidRoleName(role) ==
    \A m \in MessageRole : ~SameIgnoringCase(role, MessageRoleName[m])

\* name names no member of ProjectStatus, whatever the case of its letters
InvalidStatusName(name) ==
    \A m \in ProjectStatus : ~SameIgnoringCase(name, ProjectStatusName[m])

\* the messages the run in slot t has added to its project's ledger
Added(t) ==
    IF turn[t].project_id \in DOMAIN ledger
    THEN SubSeq(ledger[turn[t].project_id], turn[t].start + 1,
                Len(ledger[turn[t].project_id]))
    ELSE <<>>

----------------------------------------------------------------------------
(* C1: a saveMessage call of a turn whose role names no member of          *)
(* {USER, ASSISTANT, SYSTEM} appends nothing, comes back to the            *)
(* collaborator as a descriptive string, and does not abort the turn.      *)
C1_InvalidRoleIsReported ==
    [][ \A t \in Slots :
          ( /\ Dispatched(t)
            /\ turn[t].mode = "turn"
            /\ turn'[t].call.tool = "save_message"
            /\ InvalidRoleName(turn'[t].call.sarg) )
          => /\ ledger' = ledger
             /\ turn'[t].result.kind = "str"
             /\ turn'[t].pc = "reasoning" ]_vars

(* C2: updateStatus with a name that matches no member of the status enum  *)
(* returns a rejection string instead of raising, and leaves the status of *)
(* the project (of every project) as it was.                               *)
C2_InvalidStatusRejected ==
    [][ \A t \in Slots :
          ( /\ Dispatched(t)
            /\ turn'[t].call.tool = "update_status"
            /\ InvalidStatusName(turn'[t].call.sarg) )
          => /\ turn'[t].result.kind = "str"
             /\ turn'[t].result.msg \in { "Error: Invalid status '{new_status}'",
                                          "Error: No active project" }
             /\ turn'[t].pc = "reasoning"
             /\ projects' = projects ]_vars

C2_Witness ==
    \E t \in Slots :
        /\ turn[t].call.tool = "update_status"
        /\ InvalidStatusName(turn[t].call.sarg)
        /\ turn[t].result.msg = "Error: Invalid status '{new_status}'"
        /\ turn[t].project_id \in DOMAIN projects
        /\ projects[turn[t].project_id].status = "VISION_REVIEW"

(* C3: updateStatus on a bound existing project with any case variant of   *)
(* the name of a member m sets the project's status to exactly m, whatever *)
(* the status was before.                                                  *)
C3_AnySpellingSetsMember ==
    [][ \A t \in Slots : \A m \in ProjectStatus :
          ( /\ Dispatched(t)
            /\ turn'[t].call.tool = "update_status"
            /\ SameIgnoringCase(turn'[t].call.sarg, ProjectStatusName[m])
            /\ turn[t].project_id \in DOMAIN projects )
          => /\ projects'[turn[t].project_id].status = m
             /\ turn'[t].result.msg = "Project status updated to {new_status}"
             /\ turn'[t].pc = "reasoning" ]_vars

C3_Witness ==
    \E t \in Slots :
        /\ turn[t].call.tool = "update_status"
        /\ turn[t].call.sarg = <<"b","r","a","i","n","s","t","o","r","m","i","n","g">>
        /\ turn[t].start > 0
        /\ turn[t].project_id = "p1"
        /\ projects["p1"].status = "BRAINSTORMING"

(* C4: of the messages a completed turn appends, the first is the USER     *)
(* message with the user's text, the last is the ASSISTANT message with    *)
(* the collaborator's final reply, and runTurn returns that reply.         *)
C4_UserFirstAssistantLast ==
    \A t \in Slots :
        (turn[t].mode = "turn" /\ turn[t].pc = "complete")
        => LET added == Added(t) IN
           /\ Len(added) >= 2
           /\ added[1].role = "USER"
           /\ added[1].content = turn[t].user_message
           /\ added[Len(added)].role = "ASSISTANT"
           /\ added[Len(added)].content = turn[t].reply
           /\ turn[t].returned = <<added[Len(added)].content>>

C4_Witness ==
    \E t \in Slots :
        /\ turn[t].mode = "turn" /\ turn[t].pc = "complete"
        /\ turn[t].start > 0
        /\ Len(Added(t)) = 4

(* C5, as claimed: every completed turn makes the ledger exactly two       *)
(* messages longer, whatever tools the collaborator called.                *)
C5_ExactlyTwoPerTurn ==
    \A t \in Slots :
        (turn[t].mode = "turn" /\ turn[t].pc = "complete")
        => Len(Added(t)) = 2

(* C5, amended: a completed turn makes the ledger longer by two plus the   *)
(* number of saveMessage calls of the turn that returned their             *)
(* confirmation; each of those adds one message with the role it named,    *)
(* between the USER message and the ASSISTANT reply.                       *)
C5_TwoPlusSavedMessages ==
    \A t \in Slots :
        (turn[t].mode = "turn" /\ turn[t].pc = "complete")
        => LET added == Added(t) IN
           /\ Len(added) = 2 + turn[t].nsaved
           /\ \A i \in 2..(Len(added) - 1) :
                 added[i].role \in MessageRole /\ added[i].content \in SavedTexts

C5_Witness ==
    \E t \in Slots :
        /\ turn[t].mode = "turn" /\ turn[t].pc = "complete"
        /\ turn[t].nsaved = 1
        /\ turn[t].ncalls = 2

(* C6: runTurn on an id no project has fails with NotFound and no reply;   *)
(* the collaborator is not invoked, no tool runs, and no ledger and no     *)
(* project changes.                                                        *)
C6_UnknownProjectFailsFirst ==
    [][ \A t \in Slots :
          /\ ( /\ turn[t].pc = "idle"
               /\ turn'[t].mode = "turn"
               /\ turn'[t].project_id \notin DOMAIN projects )
             => /\ turn'[t].pc = "failed"
                /\ turn'[t].error = NotFound
                /\ turn'[t].attempts = 0
                /\ turn'[t].returned = <<>>
                /\ ledger' = ledger
                /\ projects' = projects
          /\ ( /\ turn[t].mode = "turn"
               /\ turn[t].project_id \notin DOMAIN projects )
             => /\ turn'[t].pc \in {"failed", "idle"}
                /\ turn'[t].attempts = 0
                /\ turn'[t].ncalls = 0
                /\ turn'[t].returned = <<>>
                /\ ledger' = ledger
                /\ projects' = projects ]_vars

C6_Witness ==
    \E t \in Slots :
        /\ turn[t].mode = "turn"
        /\ turn[t].project_id = "p0"
        /\ turn[t].pc = "failed"
        /\ Len(ledger["p2"]) > 0

(* C7, as claimed: when a turn on an existing project ends in a fatal      *)
(* error after its USER message was appended, the ledger holds that USER   *)
(* message and no ASSISTANT message of the turn, and no reply is returned. *)
C7_NoAssistantMessageAfterFatal ==
    \A t \in Slots :
        (turn[t].mode = "turn" /\ turn[t].pc = "failed" /\ turn[t].attempts > 0)
        => LET added == Added(t) IN
           /\ Len(added) >= 1
           /\ added[1].role = "USER"
           /\ added[1].content = turn[t].user_message
           /\ \A i \in 1..Len(added) : added[i].role # "ASSISTANT"
           /\ turn[t].returned = <<>>

(* C7, amended: when a turn on an existing project ends in a fatal error   *)
(* after its USER message was appended, the ledger holds that USER         *)
(* message, followed only by the messages that confirmed saveMessage calls *)
(* of the turn appended (one each, possibly with the ASSISTANT role); the  *)
(* collaborator's reply is not appended and no reply is returned.          *)
C7_NoReplyAfterFatal ==
    \A t \in Slots :
        (turn[t].mode = "turn" /\ turn[t].pc = "failed" /\ turn[t].attempts > 0)
        => LET added == Added(t) IN
           /\ Len(added) = 1 + turn[t].nsaved
           /\ added[1].role = "USER"
           /\ added[1].content = turn[t].user_message
           /\ \A i \in 2..Len(added) : added[i].content \in SavedTexts
           /\ turn[t].returned = <<>>

C7_Witness ==
    \E t \in Slots :
        /\ turn[t].mode = "turn" /\ turn[t].pc = "failed"
        /\ turn[t].error = "StorageError"
        /\ turn[t].attempts = 1
        /\ turn[t].nsaved = 1
        /\ turn[t].reply \in Replies

(* C8: a transient failure of the collaborator's invocation makes the      *)
(* invocation run again; a turn is fatal for that reason only after the    *)
(* third attempt (1 initial plus 2 retries) has failed.                    *)
C8_FatalOnlyAfterThirdAttempt ==
    \A t \in Slots :
        ( /\ turn[t].mode = "turn"
          /\ turn[t].pc = "failed"
          /\ turn[t].error = "UpstreamTransient" )
        => turn[t].attempts = 1 + retries

(* C9: what a tool call changed in Project State (status, vision document) *)
(* is not undone when the attempt fails afterwards: the failing step, a    *)
(* re-prompt of the collaborator and the fatal end of the turn leave every *)
(* project as the tool calls left it, and a getProjectContext after a      *)
(* re-prompt reports that state.                                           *)
C9_FailedAttemptKeepsToolEffects ==
    [][ \A t \in Slots :
          /\ ( \/ turn[t].pc = "reasoning" /\ turn'[t].pc = "failed"
               \/ turn[t].pc = "failed"
               \/ turn[t].pc = "reasoning" /\ turn'[t].result.kind = "retry" )
             => projects' = projects
          /\ ( /\ turn[t].result.kind = "retry"
               /\ Dispatched(t)
               /\ turn'[t].call.tool = "get_project_context"
               /\ turn[t].project_id \in DOMAIN projects )
             => /\ turn'[t].result.data[1].status
                     = enum_value(projects[turn[t].project_id].status)
                /\ turn'[t].result.data[1].has_vision_document
                     = (projects[turn[t].project_id].vision_document # <<>>) ]_vars

C9_Witness ==
    \E t \in Slots :
        /\ turn[t].mode = "turn" /\ turn[t].pc = "failed"
        /\ turn[t].error = "UpstreamTransient"
        /\ turn[t].applied
        /\ turn[t].start = 0
        /\ projects[turn[t].project_id].status = "VISION_REVIEW"
        /\ projects[turn[t].project_id].vision_document # <<>>

(* C10: with no project bound, each of the five tools returns its 'no      *)
(* active project' result without raising, whatever its arguments, and     *)
(* leaves every ledger and every project unchanged.                        *)
C10_UnboundToolsOnlyReport ==
    [][ \A t \in Slots :
          (Dispatched(t) /\ turn[t].project_id = NoProject)
          => /\ turn'[t].pc = "reasoning"
             /\ turn'[t].call.tool \in {"save_message", "update_status",
                                        "save_vision_document"}
                  => /\ turn'[t].result.kind = "str"
                     /\ turn'[t].result.msg = "Error: No active project"
             /\ turn'[t].call.tool = "get_project_context"
                  => /\ turn'[t].result.kind = "dict"
                     /\ turn'[t].result.data = <<[error |-> NoActiveProject]>>
             /\ turn'[t].call.tool = "get_conversation"
                  => /\ turn'[t].result.kind = "list"
                     /\ turn'[t].result.data = <<[error |-> NoActiveProject]>>
             /\ ledger' = ledger
             /\ projects' = projects
             /\ clock' = clock ]_vars

C10_Witness ==
    \E t \in Slots :
        /\ turn[t].project_id = NoProject
        /\ turn[t].pc = "reasoning"
        /\ turn[t].call.tool = "save_message"
        /\ InvalidRoleName(turn[t].call.sarg)
        /\ turn[t].result.msg = "Error: No active project"
        /\ Len(ledger["p1"]) > 0

C12_TurnTouchesOwnProjectOnly ==
    [][ \A t \in Slots :
          (turn'[t] # turn[t])
          => /\ turn[t].mode # "none" => turn'[t].project_id = turn[t].project_id
             /\ \A q \in ProjectIds \ {turn'[t].project_id} :
                   ledger'[q] = ledger[q] /\ projects'[q] = projects[q] ]_vars

C12_Witness ==
    /\ turn["t1"].pc = "complete" /\ turn["t2"].pc = "complete"
    /\ turn["t1"].project_id = "p1" /\ turn["t2"].project_id = "p2"
    /\ turn["t1"].applied /\ turn["t2"].applied
    /\ turn["t1"].nsaved = 1 /\ turn["t2"].nsaved = 1
    /\ ledger["p1"][turn["t1"].start + 1].timestamp
         < ledger["p2"][turn["t2"].start + 1].timestamp
    /\ ledger["p2"][turn["t2"].start + 1].timestamp
         < ledger["p1"][turn["t1"].start + 2].timestamp
    /\ ledger["p1"][Len(ledger["p1"])].timestamp
         < ledger["p2"][Len(ledger["p2"])].timestamp

(* C13: the ledger is append-only: in every step the old content of each   *)
(* project's ledger is a prefix of the new content, so no stored message   *)
(* is removed, reordered or changed.                                       *)
C13_LedgerAppendOnly ==
    [][ \A p \in ProjectIds :
          /\ Len(ledger'[p]) >= Len(ledger[p])
          /\ \A i \in 1..Len(ledger[p]) : ledger'[p][i] = ledger[p][i] ]_vars

C13_Witness ==
    \E t \in Slots :
        /\ turn[t].pc = "complete" /\ turn[t].mode = "turn"
        /\ turn[t].start = 2
        /\ turn[t].nsaved = 2
        /\ Len(ledger["p1"]) = 6
        /\ ledger["p1"][2] = Message("ASSISTANT", "ok", 3)

(* C14: getConversation(limit) with a positive limit, on a bound project   *)
(* whose ledger holds n messages, returns exactly the min(limit, n) most   *)
(* recently appended messages, oldest first, each as its role, content and *)
(* timestamp; on an empty ledger it returns the empty sequence, no error.  *)
C14_RecentMessagesOldestFirst ==
    [][ \A t \in Slots :
          ( /\ Dispatched(t)
            /\ turn'[t].call.tool = "get_conversation"
            /\ turn'[t].call.iarg > 0
            /\ turn[t].project_id \in DOMAIN projects )
          => LET L == ledger[turn[t].project_id]
                 n == Len(L)
                 k == IF turn'[t].call.iarg < n THEN turn'[t].call.iarg ELSE n
                 got == turn'[t].result.data
             IN  /\ turn'[t].pc = "reasoning"
                 /\ turn'[t].result.kind = "list"
                 /\ Len(got) = k
                 /\ \A i \in 1..k :
                       /\ got[i].role = enum_value(L[n - k + i].role)
                       /\ got[i].content = L[n - k + i].content
                       /\ got[i].timestamp = isoformat(L[n - k + i].timestamp)
                       /\ DOMAIN got[i] = {"role", "content", "timestamp"} ]_vars

C14_Witness ==
    \E t \in Slots :
        /\ turn[t].call.tool = "get_conversation"
        /\ turn[t].call.iarg = 1
        /\ turn[t].result.kind = "list"
        /\ turn[t].project_id = "p1"
        /\ Len(ledger["p1"]) = 3
        /\ turn[t].result.data = << [ role |-> enum_value("SYSTEM"), content |-> "note",
                                     timestamp |-> isoformat(6) ] >>

(* C15: a getConversation call of a turn with a limit of zero or less is   *)
(* rejected as InvalidArgument, which reaches the collaborator as a        *)
(* descriptive string result; no messages are returned and the turn is not *)
(* aborted.                                                                *)
C15_NonPositiveLimitIsReported ==
    [][ \A t \in Slots :
          ( /\ Dispatched(t)
            /\ turn[t].mode = "turn"
            /\ turn'[t].call.tool = "get_conversation"
            /\ turn'[t].call.iarg <= 0 )
          => /\ turn'[t].result.kind = "str"
             /\ turn'[t].pc = "reasoning" ]_vars

(* C16: the steps of a turn come in the order: USER message appended,      *)
(* reasoning with zero or more tool dispatches, ASSISTANT message          *)
(* appended, complete.  A tool is dispatched only after the USER message   *)
(* is in the ledger and before the final reply; the ASSISTANT message is   *)
(* appended only after the final reply, and nothing of the turn follows    *)
(* it.                                                                     *)
TurnOrder ==
    { <<"idle", "reasoning">>, <<"idle", "failed">>,
      <<"reasoning", "reasoning">>, <<"reasoning", "persisting_output">>,
      <<"reasoning", "failed">>,
      <<"persisting_output", "complete">>, <<"persisting_output", "failed">>,
      <<"complete", "idle">>, <<"failed", "idle">> }

C16_StepsInOrder ==
    [][ \A t \in Slots :
          (turn'[t] # turn[t] /\ (turn[t].mode = "turn" \/ turn'[t].mode = "turn"))
          => LET p == IF turn[t].mode = "turn" THEN turn[t].project_id
                      ELSE turn'[t].project_id
             IN
             /\ <<turn[t].pc, turn'[t].pc>> \in TurnOrder
             /\ Dispatched(t)
                  => /\ turn[t].pc = "reasoning"
                     /\ turn[t].reply = ""
                     /\ Len(ledger[p]) > turn[t].start
                     /\ ledger[p][turn[t].start + 1].role = "USER"
                     /\ ledger[p][turn[t].start + 1].content = turn[t].user_message
             /\ (turn[t].pc = "idle" /\ turn'[t].pc = "reasoning")
                  => /\ Len(ledger'[p]) = Len(ledger[p]) + 1
                     /\ ledger'[p][Len(ledger'[p])].role = "USER"
                     /\ ledger'[p][Len(ledger'[p])].content = turn'[t].user_message
             /\ (turn'[t].pc = "persisting_output")
                  => turn'[t].reply \in Replies /\ ledger' = ledger
             /\ (turn'[t].pc = "complete")
                  => /\ turn[t].reply \in Replies
                     /\ Len(ledger'[p]) = Len(ledger[p]) + 1
                     /\ ledger'[p][Len(ledger'[p])].role = "ASSISTANT"
                     /\ ledger'[p][Len(ledger'[p])].content = turn[t].reply
             /\ (turn[t].pc \in {"complete", "failed"})
                  => ledger' = ledger /\ projects' = projects ]_vars

C16_Witness ==
    \E t \in Slots :
        /\ turn[t].mode = "turn" /\ turn[t].pc = "complete"
        /\ turn[t].ncalls = 2
        /\ turn[t].applied
        /\ turn[t].nsaved = 0

(* C17: tool calls of a run are executed one per step in the order         *)
(* requested and each observes the effects of the earlier ones: a          *)
(* get_project_context issued right after a confirmed update_status        *)
(* reports the value of the member that call named, and one issued right   *)
(* after a confirmed save_vision_document reports has_vision_document as   *)
(* true.                                                                   *)
StatusUpdated == "Project status updated to {new_status}"
VisionSaved == "Vision document saved successfully"

C17_LaterCallSeesEarlierEffects ==
    [][ \A t \in Slots :
          /\ turn'[t].ncalls > turn[t].ncalls => Dispatched(t)
          /\ ( /\ Dispatched(t)
               /\ turn'[t].call.tool = "get_project_context"
               /\ turn[t].result.kind = "str" )
             => /\ (turn[t].call.tool = "update_status"
                      /\ turn[t].result.msg = StatusUpdated)
                  => \E m \in ProjectStatus :
                        /\ SameIgnoringCase(turn[t].call.sarg, ProjectStatusName[m])
                        /\ turn'[t].result.kind = "dict"
                        /\ turn'[t].result.msg = "project"
                        /\ turn'[t].result.data[1].status = enum_value(m)
                /\ (turn[t].call.tool = "save_vision_document"
                      /\ turn[t].result.msg = VisionSaved)
                  => /\ turn'[t].result.kind = "dict"
                     /\ turn'[t].result.msg = "project"
                     /\ turn'[t].result.data[1].has_vision_document = TRUE ]_vars

C17_Witness ==
    \E t \in Slots :
        /\ turn[t].start = 0
        /\ turn[t].applied
        /\ turn[t].ncalls = 2
        /\ turn[t].call.tool = "get_project_context"
        /\ turn[t].result.kind = "dict"
        /\ turn[t].result.msg = "project"
        /\ \/ turn[t].result.data[1].status = enum_value("VISION_REVIEW")
           \/ turn[t].result.data[1].has_vision_document = TRUE

(* C18: a call of get_project_context or get_conversation, with any        *)
(* arguments, with or without a bound project and whether it returns or    *)
(* raises, leaves every project's fields and every ledger as they were.    *)
C18_ReadToolsChangeNothing ==
    [][ \A t \in Slots :
          ( /\ Dispatched(t)
            /\ turn'[t].call.tool \in {"get_project_context", "get_conversation"} )
          => /\ projects' = projects
             /\ ledger' = ledger
             /\ clock' = clock ]_vars

C18_Witness ==
    \E t \in Slots :
        /\ turn[t].ncalls = 2
        /\ turn[t].call.tool = "get_conversation"
        /\ turn[t].result.kind = "list"
        /\ turn[t].result.msg = "messages"
        /\ Len(turn[t].result.data) > 0
        /\ turn[t].project_id \in DOMAIN projects
        /\ projects[turn[t].project_id].status = "VISION_REVIEW"

====
